---- MODULE Spec2Model ----
(***************************************************************************)
(* Model of prusacam.py: the start-up configuration checks, the camera     *)
(* selection, the poll loop (status query, capture, upload, sleep) and the *)
(* retention sweep deleteImages.                                           *)
(*                                                                         *)
(* Strings that the program inspects character by character (the           *)
(* fingerprint, file names, folder paths) are sequences of one-character   *)
(* strings, so that len(), concatenation and the `in` substring test are   *)
(* computed the way Python computes them.                                  *)
(***************************************************************************)
EXTENDS Integers, Sequences, FiniteSets, TLC

(* ---------------------------------------------------------------------- *)
(* Bounds of the model                                                     *)
(* ---------------------------------------------------------------------- *)
\* completed poll-loop iterations (sleeps) explored
MaxIter == 3
\* status queries issued inside the poll loop (failed ones included)
MaxQueries == 4
\* directory entries of a folder handed to deleteImages
MaxEntries == 4

(* ---------------------------------------------------------------------- *)
(* Program constants                                                       *)
(* ---------------------------------------------------------------------- *)
default_max_images == 500
MinFingerprintLen == 16
NumCameraIndices == 10
PrintingSleep == 60
OtherSleep == 120
NoCamera == -1

None == "None"

(* ---------------------------------------------------------------------- *)
(* Strings                                                                 *)
(* ---------------------------------------------------------------------- *)
Rep(c, n) == [i \in 1..n |-> c]

\* Python: a in b, for strings
IsSubstr(a, b) ==
    \E i \in 0..(Len(b) - Len(a)) : SubSeq(b, i + 1, i + Len(a)) = a

Digit(n) == <<"0", "1", "2", "3", "4", "5", "6", "7", "8", "9">>[n + 1]
TwoDigits(n) == <<Digit((n \div 10) % 10), Digit(n % 10)>>

\* datetime.now().strftime('%Y-%m-%d_%H_%M_%S'); the model's clock counts
\* the seconds of one day, 2024-01-01
Strftime(t) ==
    <<"2", "0", "2", "4", "-", "0", "1", "-", "0", "1", "_">>
      \o TwoDigits(t \div 3600) \o <<"_">>
      \o TwoDigits((t \div 60) % 60) \o <<"_">>
      \o TwoDigits(t % 60)

DotJpg == <<".", "j", "p", "g">>

\* the time of the capture left out of the name
FileName_SameStamp(fp, t) == fp \o <<"_">> \o Strftime(0) \o DotJpg

\* f"{fingerprint}_{timestamp}.jpg"
FileName(fp, t) == fp \o <<"_">> \o Strftime(t) \o DotJpg

\* str(imgs_folder / name)
PathStr(folder, name) == folder \o <<"/">> \o name

FpA == Rep("a", 16)
FpB == FpA \o <<"b">>
FpC == Rep("c", 16)
FpShort == Rep("a", 15)

PlainFolder == <<"/", "i", "m", "g", "s">>
\* an image folder whose own path contains a fingerprint
FpFolder == <<"/">> \o FpA

(* ---------------------------------------------------------------------- *)
(* Inputs: configuration values and answers of the environment             *)
(* ---------------------------------------------------------------------- *)
Fingerprints == {FpShort, FpA, FpB}
RotateValues == {0, 90, 180, 270, -90, 360, 45}
MaxImagesValues == {1, default_max_images}
FolderKinds == {"absent", "dir", "file"}
CameraPath == "usb-cam-video-index0"
PrinterStates == {"PRINTING", "IDLE", "FINISHED"}
\* what a call of getPrinterStatus followed by status["printer"]["state"]
\* can meet: the request raising, the body not being JSON, the JSON lacking
\* printer.state, or a state
StatusOutcomes == {"network_error", "bad_json", "no_state"} \cup PrinterStates
CaptureOutcomes == {"not_opened", "read_failed", "frame"}
PutOutcomes == {"ok", "error_response", "network_error"}
PromptAnswers == {"y", "n", "maybe"}

\* indices at which the machine has a camera that may deliver a frame
AttachedCameras == {0, 2, 9}
Readable(i) == IF i \in AttachedCameras THEN BOOLEAN ELSE {FALSE}

\* what the last step was and what the environment answered
Step(op, outcome) == [op |-> op, outcome |-> outcome]

\* img_path when no path was returned
NoPath == <<>>

IndexCamera(i) == [kind |-> "index", index |-> i, path |-> ""]
PathCamera(p) == [kind |-> "path", index |-> 0, path |-> p]

Configs ==
    [json : BOOLEAN,
     fingerprint : Fingerprints,
     has_rotate : BOOLEAN, rotate : RotateValues,
     has_maximages : BOOLEAN, maximages : MaxImagesValues,
     has_camera : BOOLEAN,
     directory : {PlainFolder}]

\* a key that is absent carries one fixed value, and the discrete flags
\* always carry rotate and maximages (argparse defaults, lines 23 and 25)
WellFormed(c) ==
    /\ (~c.has_rotate => c.rotate = 0)
    /\ (~c.has_maximages => c.maximages = default_max_images)
    /\ (~c.json => c.has_rotate /\ c.has_maximages)

VARIABLES
    cfg,            \* parsed arguments / configuration file
    pc,             \* position of the script
    error,          \* exception that ended the process, "" if none
    fsKind,         \* what the image folder path is on disk
    files,          \* entries of the image folder: [name, ctime]
    image_rotation, max_images, camera_id, printer_status, img_path,
    sel_i,          \* selectCamera: loop index i
    loop,           \* which inner while loop is running
    entered_loop,   \* the poll loop (line 266) was reached
    openHandles,    \* video handles opened and not released
    camTouches,     \* camera opens, probes and verifications so far
    nQueries,       \* status queries issued so far
    nLoopQueries,   \* status queries issued inside the poll loop
    uploads,        \* file names handed to requests.put, in order
    clock,          \* seconds since the script started
    iter,           \* completed iterations (sleeps)
    lastSleep,      \* duration of the last sleep, 0 before the first
    lastQueryAt,    \* clock of the last successful status query
    prev_status,    \* printer_status before the last successful loop query
    lastStep,       \* what the last step of the script did
    sw              \* retention sweep: its arguments and result

vars == <<cfg, pc, error, fsKind, files, image_rotation, max_images,
          camera_id, printer_status, img_path, sel_i, loop, entered_loop,
          openHandles, camTouches, nQueries, nLoopQueries, uploads, clock,
          iter, lastSleep, lastQueryAt, prev_status, lastStep, sw>>

NoSweep == [done |-> FALSE, folder |-> <<>>, fingerprint |-> <<>>,
            max_images |-> 0, listing |-> <<>>, removed |-> {}]

Init ==
    /\ cfg \in {c \in Configs : WellFormed(c)}
    /\ pc = IF cfg.json THEN "check_fingerprint" ELSE "check_rotate"
    /\ error = ""
    /\ fsKind \in FolderKinds
    /\ files = {}
    /\ image_rotation = None
    /\ max_images = default_max_images
    /\ camera_id = IndexCamera(NoCamera)
    /\ printer_status = ""
    /\ img_path = NoPath
    /\ sel_i = 0
    /\ loop = "none"
    /\ entered_loop = FALSE
    /\ openHandles = 0
    /\ camTouches = 0
    /\ nQueries = 0
    /\ nLoopQueries = 0
    /\ uploads = <<>>
    /\ clock = 0
    /\ iter = 0
    /\ lastSleep = 0
    /\ lastQueryAt = 0
    /\ prev_status = ""
    /\ lastStep = Step("start", "")
    /\ sw = NoSweep

\* an uncaught exception ends the process
Raise(e) == pc' = "exit" /\ error' = e

(* ---------------------------------------------------------------------- *)
(* Start-up: lines 173-258                                                 *)
(* ---------------------------------------------------------------------- *)
\* the length check one character too lenient
FingerprintTooShort_OffByOne(fp) == Len(fp) < MinFingerprintLen - 1

\* lines 180 and 239: len(fingerprint) < 16
FingerprintTooShort(fp) == Len(fp) < MinFingerprintLen

\* lines 179-181 (JSON file) and 239-240 (discrete flags)
CheckFingerprint ==
    /\ pc = "check_fingerprint"
    /\ IF FingerprintTooShort(cfg.fingerprint)
         THEN Raise("ValueError")
         ELSE /\ pc' = IF cfg.json THEN "check_rotate" ELSE "folder"
              /\ error' = error
    /\ lastStep' = Step("check_fingerprint", "")
    /\ UNCHANGED <<cfg, fsKind, files, image_rotation, max_images, camera_id,
                   printer_status, img_path, sel_i, loop, entered_loop,
                   openHandles, camTouches, nQueries, nLoopQueries, uploads,
                   clock, iter, lastSleep, lastQueryAt, prev_status, sw>>

possible_rot == <<None, "ROTATE_90_CLOCKWISE", "ROTATE_180",
                  "ROTATE_90_COUNTERCLOCKWISE">>

\* Python list indexing: seq[i], negative i counting from the end
PyIndexValid(seq, i) == -Len(seq) <= i /\ i < Len(seq)
PyIndex(seq, i) == IF i >= 0 THEN seq[i + 1] ELSE seq[Len(seq) + i + 1]

\* int(rotate/90) == rotate/90
IsMultipleOf90(r) == r % 90 = 0
\* int(rotate/90) of a multiple of 90
RotInd(r) == IF r >= 0 THEN r \div 90 ELSE -((-r) \div 90)

\* lines 186-194 (JSON file) and 226-237 (discrete flags)
CheckRotation ==
    /\ pc = "check_rotate"
    /\ IF ~cfg.has_rotate
         THEN \* KeyError caught at line 193
              /\ image_rotation' = None
              /\ pc' = "folder"
              /\ error' = error
         ELSE IF ~IsMultipleOf90(cfg.rotate)
           THEN Raise("TypeError") /\ UNCHANGED image_rotation
           ELSE IF ~PyIndexValid(possible_rot, RotInd(cfg.rotate))
             THEN Raise("IndexError") /\ UNCHANGED image_rotation
             ELSE /\ image_rotation' = PyIndex(possible_rot, RotInd(cfg.rotate))
                  /\ pc' = IF cfg.json THEN "folder" ELSE "check_fingerprint"
                  /\ error' = error
    /\ lastStep' = Step("check_rotate", "")
    /\ UNCHANGED <<cfg, fsKind, files, max_images, camera_id,
                   printer_status, img_path, sel_i, loop, entered_loop,
                   openHandles, camTouches, nQueries, nLoopQueries, uploads,
                   clock, iter, lastSleep, lastQueryAt, prev_status, sw>>

\* the folder not being created
FolderAfterCheck_NoMkdir(kind) == kind

\* lines 203-207 and 245-249, the path not being a file: an absent path is
\* created (mkdir), a directory is left as it is
FolderAfterCheck(kind) == IF kind = "absent" THEN "dir" ELSE kind

\* lines 196-207 (JSON file) and 241-249 (discrete flags)
PrepareFolder ==
    /\ pc = "folder"
    /\ max_images' = IF cfg.has_maximages THEN cfg.maximages
                                          ELSE default_max_images
    /\ IF fsKind = "file"
         THEN Raise("FileExistsError") /\ UNCHANGED fsKind
         ELSE /\ fsKind' = FolderAfterCheck(fsKind)
              /\ pc' = "camera"
              /\ error' = error
    /\ lastStep' = Step("folder", "")
    /\ UNCHANGED <<cfg, files, image_rotation, camera_id,
                   printer_status, img_path, sel_i, loop, entered_loop,
                   openHandles, camTouches, nQueries, nLoopQueries, uploads,
                   clock, iter, lastSleep, lastQueryAt, prev_status, sw>>

\* lines 209-218 (JSON file) and 251-258 (discrete flags), a camera being
\* configured: CameraTester.verifyCamera answers ret
VerifyCamera ==
    /\ pc = "camera"
    /\ cfg.has_camera
    /\ camTouches' = camTouches + 1
    /\ \E ret \in BOOLEAN :
         /\ IF ret = FALSE
              THEN Raise("ConnectionError") /\ UNCHANGED camera_id
              ELSE /\ camera_id' = IF cfg.json
                                     THEN PathCamera("/dev/v4l/by-id/" \o CameraPath)
                                     ELSE PathCamera(CameraPath)
                   /\ pc' = "status0"
                   /\ error' = error
         /\ lastStep' = Step("verify", IF ret THEN "valid" ELSE "invalid")
    /\ UNCHANGED <<cfg, fsKind, files, image_rotation, max_images,
                   printer_status, img_path, sel_i, loop, entered_loop,
                   openHandles, nQueries, nLoopQueries, uploads,
                   clock, iter, lastSleep, lastQueryAt, prev_status, sw>>

(* ---------------------------------------------------------------------- *)
(* selectCamera: lines 111-147                                             *)
(* ---------------------------------------------------------------------- *)
\* lines 252-253 / 217-218: no camera configured, selectCamera is called
StartSelect ==
    /\ pc = "camera"
    /\ ~cfg.has_camera
    /\ pc' = "select"
    /\ sel_i' = 0
    /\ camera_id' = IndexCamera(NoCamera)
    /\ lastStep' = Step("select", "")
    /\ UNCHANGED <<cfg, error, fsKind, files, image_rotation, max_images,
                   printer_status, img_path, loop, entered_loop,
                   openHandles, camTouches, nQueries, nLoopQueries, uploads,
                   clock, iter, lastSleep, lastQueryAt, prev_status, sw>>

\* the for loop going on after a camera was chosen
AfterCandidate_NoBreak(chosen) ==
    /\ camera_id' = chosen
    /\ IF sel_i + 1 >= NumCameraIndices
         THEN pc' = "status0" /\ sel_i' = sel_i
         ELSE pc' = "select" /\ sel_i' = sel_i + 1

\* lines 138-147: the candidate's handle is released; the for loop breaks
\* when a camera was chosen and ends after the last index; selectCamera
\* returns camera_id and the script goes on with it (lines 218, 253)
AfterCandidate(chosen) ==
    /\ camera_id' = chosen
    /\ IF chosen # IndexCamera(NoCamera) \/ sel_i + 1 >= NumCameraIndices
         THEN pc' = "status0" /\ sel_i' = sel_i
         ELSE pc' = "select" /\ sel_i' = sel_i + 1

\* lines 124-126: open candidate sel_i and read one frame
SelectProbe ==
    /\ pc = "select"
    /\ camTouches' = camTouches + 1
    /\ \E readable \in Readable(sel_i) :
         /\ IF readable
              THEN /\ pc' = "prompt"
                   /\ openHandles' = openHandles + 1
                   /\ UNCHANGED <<camera_id, sel_i>>
              ELSE /\ AfterCandidate(camera_id)
                   /\ UNCHANGED openHandles
         /\ lastStep' = Step("probe", IF readable THEN "frame" ELSE "no_frame")
    /\ UNCHANGED <<cfg, error, fsKind, files, image_rotation, max_images,
                   printer_status, img_path, loop, entered_loop,
                   nQueries, nLoopQueries, uploads,
                   clock, iter, lastSleep, lastQueryAt, prev_status, sw>>

\* lines 128-138: one answer of the operator
SelectPrompt ==
    /\ pc = "prompt"
    /\ \E inp \in PromptAnswers :
         /\ IF inp = "y"
              THEN AfterCandidate(IndexCamera(sel_i))
                     /\ openHandles' = openHandles - 1
              ELSE IF inp = "n"
                THEN AfterCandidate(camera_id)
                       /\ openHandles' = openHandles - 1
                ELSE UNCHANGED <<pc, camera_id, sel_i, openHandles>>
         /\ lastStep' = Step("prompt", inp)
    /\ UNCHANGED <<cfg, error, fsKind, files, image_rotation, max_images,
                   printer_status, img_path, loop, entered_loop,
                   camTouches, nQueries, nLoopQueries, uploads,
                   clock, iter, lastSleep, lastQueryAt, prev_status, sw>>

(* ---------------------------------------------------------------------- *)
(* The poll loop: lines 261-294                                            *)
(* ---------------------------------------------------------------------- *)
\* every state but IDLE taken for printing
WhileLoop_NotIdle(status) == IF status # "IDLE" THEN "printing" ELSE "other"

\* lines 266-283: the inner while loop that runs for a printer_status
WhileLoop(status) == IF status = "PRINTING" THEN "printing" ELSE "other"

\* the two intervals exchanged
SleepDuration_Swapped(l) == IF l = "printing" THEN OtherSleep ELSE PrintingSleep

\* lines 279 and 294: time.sleep of each inner loop
SleepDuration(l) == IF l = "printing" THEN PrintingSleep ELSE OtherSleep

QueryRaises(o) == o \in {"network_error", "bad_json"}

\* the handler falling through to the rest of the iteration
Continue_FallsThrough ==
    /\ pc' = "capture"
    /\ loop' = loop

\* the handler leaving the inner loop for the not-printing one
Continue_ToOtherLoop ==
    /\ pc' = "query"
    /\ loop' = "other"

\* the handler ending the script
Continue_Exits ==
    /\ pc' = "exit"
    /\ loop' = loop

\* lines 272-273 and 287-288: except: continue; control returns to the
\* condition of the inner while loop, which printer_status still satisfies
Continue ==
    /\ pc' = "query"
    /\ loop' = WhileLoop(printer_status)

\* lines 262-264: the status query before the loop, outside any try
InitialStatus ==
    /\ pc = "status0"
    /\ nQueries' = nQueries + 1
    /\ \E o \in StatusOutcomes :
         /\ IF QueryRaises(o)
              THEN Raise("RequestError")
                     /\ UNCHANGED <<printer_status, loop, entered_loop>>
              ELSE IF o = "no_state"
                THEN Raise("KeyError")
                       /\ UNCHANGED <<printer_status, loop, entered_loop>>
                ELSE /\ printer_status' = o
                     /\ loop' = WhileLoop(o)
                     /\ entered_loop' = TRUE
                     /\ pc' = "query"
                     /\ error' = error
         /\ lastStep' = Step("status0", o)
    /\ lastQueryAt' = clock
    /\ UNCHANGED <<cfg, fsKind, files, image_rotation, max_images, camera_id,
                   img_path, sel_i, openHandles, camTouches, nLoopQueries,
                   uploads, clock, iter, lastSleep, prev_status, sw>>

\* lines 270-275 and 285-290: the status query of an iteration
StatusQuery ==
    /\ pc = "query"
    /\ nLoopQueries < MaxQueries
    /\ nQueries' = nQueries + 1
    /\ nLoopQueries' = nLoopQueries + 1
    /\ \E o \in StatusOutcomes :
         /\ IF QueryRaises(o)
              THEN /\ Continue
                   /\ UNCHANGED <<error, printer_status, prev_status,
                                  lastQueryAt>>
              ELSE IF o = "no_state"
                THEN /\ Raise("KeyError")
                     /\ UNCHANGED <<loop, printer_status, prev_status,
                                    lastQueryAt>>
                ELSE /\ prev_status' = printer_status
                     /\ printer_status' = o
                     /\ lastQueryAt' = clock
                     /\ pc' = "capture"
                     /\ UNCHANGED <<error, loop>>
         /\ lastStep' = Step("query", o)
    /\ UNCHANGED <<cfg, fsKind, files, image_rotation, max_images, camera_id,
                   img_path, sel_i, entered_loop, openHandles, camTouches,
                   uploads, clock, iter, lastSleep, sw>>

\* cv2.imwrite: the file is created, or replaced when the name exists
WriteFile(fs, name, now) ==
    {f \in fs : f.name # name} \cup {[name |-> name, ctime |-> now]}

\* lines 71-109.  outcome says what the camera does.  raised: the call ends
\* with UnboundLocalError, img_path being read without having been assigned
\* (line 109 when the source did not open, line 97 when the read failed);
\* opened/released: the device was opened / cap.release() was reached
captureImage(outcome, fingerprint, fs, now) ==
    IF outcome = "not_opened"
      THEN [raised |-> TRUE, opened |-> FALSE, released |-> TRUE,
            ret |-> NoPath, files |-> fs]
      ELSE IF outcome = "read_failed"
        THEN [raised |-> TRUE, opened |-> TRUE, released |-> FALSE,
              ret |-> NoPath, files |-> fs]
        ELSE [raised |-> FALSE, opened |-> TRUE, released |-> TRUE,
              ret |-> FileName(fingerprint, now),
              files |-> WriteFile(fs, FileName(fingerprint, now), now)]

\* lines 276-277 and 291-292
Capture ==
    /\ pc = "capture"
    /\ camTouches' = camTouches + 1
    /\ \E o \in CaptureOutcomes :
         LET r == captureImage(o, cfg.fingerprint, files, clock) IN
           /\ files' = r.files
           /\ openHandles' = IF r.opened /\ ~r.released
                               THEN openHandles + 1 ELSE openHandles
           /\ lastStep' = Step("capture", o)
           /\ IF r.raised
                THEN Raise("UnboundLocalError") /\ UNCHANGED img_path
                ELSE /\ img_path' = r.ret
                     /\ pc' = IF r.ret # NoPath THEN "upload" ELSE "sleep"
                     /\ error' = error
    /\ UNCHANGED <<cfg, fsKind, image_rotation, max_images, camera_id,
                   printer_status, sel_i, loop, entered_loop, nQueries,
                   nLoopQueries, uploads, clock, iter, lastSleep,
                   lastQueryAt, prev_status, sw>>

\* lines 30-54, called at lines 278 and 293: the response is returned and
\* never looked at; an exception of requests.put is not caught
PutImage ==
    /\ pc = "upload"
    /\ uploads' = Append(uploads, img_path)
    /\ \E o \in PutOutcomes :
         /\ IF o = "network_error"
              THEN Raise("RequestError")
              ELSE pc' = "sleep" /\ error' = error
         /\ lastStep' = Step("upload", o)
    /\ UNCHANGED <<cfg, fsKind, files, image_rotation, max_images, camera_id,
                   printer_status, img_path, sel_i, loop, entered_loop,
                   openHandles, camTouches, nQueries, nLoopQueries,
                   clock, iter, lastSleep, lastQueryAt, prev_status, sw>>

\* lines 279 and 294, then the while conditions of lines 266-283
Sleep ==
    /\ pc = "sleep"
    /\ iter < MaxIter
    /\ clock' = clock + SleepDuration(loop)
    /\ lastSleep' = SleepDuration(loop)
    /\ iter' = iter + 1
    /\ loop' = WhileLoop(printer_status)
    /\ pc' = "query"
    /\ lastStep' = Step("sleep", "")
    /\ UNCHANGED <<cfg, error, fsKind, files, image_rotation, max_images,
                   camera_id, printer_status, img_path, sel_i, entered_loop,
                   openHandles, camTouches, nQueries, nLoopQueries, uploads,
                   lastQueryAt, prev_status, sw>>

Next ==
    \/ CheckFingerprint
    \/ CheckRotation
    \/ PrepareFolder
    \/ VerifyCamera
    \/ StartSelect
    \/ SelectProbe
    \/ SelectPrompt
    \/ InitialStatus
    \/ StatusQuery
    \/ Capture
    \/ PutImage
    \/ Sleep

Spec == Init /\ [][Next]_vars

TypeOK ==
    /\ pc \in {"check_fingerprint", "check_rotate", "folder", "camera",
               "select", "prompt", "status0", "query", "capture", "upload",
               "sleep", "exit"}
    /\ loop \in {"none", "printing", "other"}
    /\ openHandles \in 0..(MaxIter + 1)
    /\ iter \in 0..MaxIter

(* ---------------------------------------------------------------------- *)
(* deleteImages: lines 149-165.  No line of the script calls it; it is     *)
(* checked on its own, applied once to a folder drawn from FolderContents. *)
(* ---------------------------------------------------------------------- *)
\* sorted() is stable: f goes behind every entry whose key is not larger
RECURSIVE InsertByCtime(_, _)
InsertByCtime(sorted, f) ==
    IF sorted = <<>> \/ sorted[Len(sorted)].ctime <= f.ctime
      THEN Append(sorted, f)
      ELSE Append(InsertByCtime(SubSeq(sorted, 1, Len(sorted) - 1), f),
                  sorted[Len(sorted)])

\* sorted(listing, key = os.path.getctime)
RECURSIVE SortedByCtime(_)
SortedByCtime(listing) ==
    IF listing = <<>>
      THEN <<>>
      ELSE InsertByCtime(SortedByCtime(SubSeq(listing, 1, Len(listing) - 1)),
                         listing[Len(listing)])

\* line 161: fingerprint in str(img) and ".jpg" in str(img)
Matches(folder, fingerprint, f) ==
    /\ IsSubstr(fingerprint, PathStr(folder, f.name))
    /\ IsSubstr(DotJpg, PathStr(folder, f.name))

\* Python: seq[0:stop]
PySliceUpTo(seq, stop) ==
    LET n == Len(seq)
        e == IF stop < 0 THEN (IF n + stop < 0 THEN 0 ELSE n + stop)
                         ELSE (IF stop > n THEN n ELSE stop)
    IN SubSeq(seq, 1, e)

Range(seq) == {seq[i] : i \in 1..Len(seq)}

\* the entries os.remove is called on; listing is imgs_folder.iterdir()
deleteImages(folder, listing, fingerprint, cap) ==
    LET imgs == SortedByCtime(listing)
        filtered == SelectSeq(imgs, LAMBDA f : Matches(folder, fingerprint, f))
    IN IF Len(filtered) > cap
         THEN Range(PySliceUpTo(filtered, (-1) * cap))
         ELSE {}

SweepFingerprints == {FpA, FpB, FpC}
SweepCaps == {0, 1, 2}
SweepFolders == {PlainFolder, FpFolder}
\* images of three cameras, two of which took theirs in the same seconds,
\* and a file that is no image
FileUniverse ==
    {[name |-> FileName(fp, t), ctime |-> t] :
        fp \in SweepFingerprints, t \in {0, 60}}
      \cup {[name |-> FpA \o <<".", "t", "x", "t">>, ctime |-> 30]}
FolderContents == {S \in SUBSET FileUniverse : Cardinality(S) <= MaxEntries}

\* the orders in which iterdir() can list the entries S
Listings(S) ==
    {l \in [1..Cardinality(S) -> S] : \A i, j \in 1..Cardinality(S) :
                                         l[i] = l[j] => i = j}

SweepInit ==
    /\ cfg = [json |-> FALSE, fingerprint |-> FpA, has_rotate |-> TRUE,
              rotate |-> 0, has_maximages |-> TRUE,
              maximages |-> default_max_images, has_camera |-> FALSE,
              directory |-> PlainFolder]
    /\ pc = "sweep"
    /\ error = ""
    /\ fsKind = "dir"
    /\ files \in FolderContents
    /\ image_rotation = None
    /\ max_images = default_max_images
    /\ camera_id = IndexCamera(NoCamera)
    /\ printer_status = ""
    /\ img_path = NoPath
    /\ sel_i = 0
    /\ loop = "none"
    /\ entered_loop = FALSE
    /\ openHandles = 0
    /\ camTouches = 0
    /\ nQueries = 0
    /\ nLoopQueries = 0
    /\ uploads = <<>>
    /\ clock = 0
    /\ iter = 0
    /\ lastSleep = 0
    /\ lastQueryAt = 0
    /\ prev_status = ""
    /\ lastStep = Step("start", "")
    /\ sw \in [done : {FALSE}, folder : SweepFolders,
               fingerprint : SweepFingerprints, max_images : SweepCaps,
               listing : Listings(files), removed : {{}}]

\* one call deleteImages(imgs_folder, fingerprint, max_images)
DeleteImages ==
    /\ pc = "sweep"
    /\ ~sw.done
    /\ LET removed == deleteImages(sw.folder, sw.listing, sw.fingerprint,
                                   sw.max_images)
       IN /\ files' = files \ removed
          /\ sw' = [sw EXCEPT !.done = TRUE, !.removed = removed]
    /\ lastStep' = Step("sweep", "")
    /\ UNCHANGED <<cfg, pc, error, fsKind, image_rotation, max_images,
                   camera_id, printer_status, img_path, sel_i, loop,
                   entered_loop, openHandles, camTouches, nQueries,
                   nLoopQueries, uploads, clock, iter, lastSleep,
                   lastQueryAt, prev_status>>

SweepNext == DeleteImages

SweepSpec == SweepInit /\ [][SweepNext]_vars

(* ---------------------------------------------------------------------- *)
(* Properties                                                              *)
(* ---------------------------------------------------------------------- *)
\* the file name is fingerprint fp, "_", a 19 character timestamp, ".jpg"
OwnedBy(f, fp) ==
    /\ Len(f.name) = Len(fp) + 1 + 19 + Len(DotJpg)
    /\ SubSeq(f.name, 1, Len(fp) + 1) = fp \o <<"_">>
    /\ SubSeq(f.name, Len(f.name) - Len(DotJpg) + 1, Len(f.name)) = DotJpg

IntervalFor(status) == IF status = "PRINTING" THEN PrintingSleep ELSE OtherSleep

\* C1: when the capture step of an iteration yields no frame (source not
\* opened, or frame read failed), the script does not stop and raises
\* nothing, makes no upload call and stands before that iteration's sleep.
C1_NoFrameSkipsUpload ==
    (lastStep.op = "capture" /\ lastStep.outcome \in {"not_opened", "read_failed"})
      => (pc = "sleep" /\ error = "")

\* C2: a status query of the poll loop that raises is followed at once by
\* the next status query of the same inner loop: the process does not end,
\* no time passes, nothing is captured and nothing is uploaded in between.
C2_FailedQueryRetriesAtOnce ==
    [][(pc = "query" /\ lastStep'.op = "query"
          /\ lastStep'.outcome \in {"network_error", "bad_json"})
        => (/\ pc' = "query"
            /\ error' = ""
            /\ loop' = loop
            /\ UNCHANGED <<clock, iter, lastSleep, camTouches, openHandles,
                           uploads, files, printer_status, img_path>>)]_vars

C2_Witness ==
    /\ pc = "query"
    /\ lastStep = Step("query", "network_error")
    /\ iter >= 1
    /\ nLoopQueries >= 2

\* C3 as stated: the sleep that ends an iteration, and so the distance to
\* the next status query, is 60 if the state returned by that iteration's
\* query is PRINTING and 120 otherwise.
C3_SleepFollowsReturnedState ==
    lastStep.op = "sleep"
      => (/\ lastSleep = IntervalFor(printer_status)
          /\ clock - lastQueryAt = IntervalFor(printer_status))

\* C3 amended: the sleep that ends an iteration, and so the distance from
\* that iteration's status query to the next one, is 60 if the state known
\* before that iteration's query was PRINTING and 120 otherwise.
C3_SleepFollowsEarlierState ==
    lastStep.op = "sleep"
      => (/\ lastSleep = IntervalFor(prev_status)
          /\ clock - lastQueryAt = IntervalFor(prev_status))

C3_Witness ==
    /\ lastStep.op = "sleep"
    /\ prev_status = "PRINTING"
    /\ printer_status = "IDLE"
    /\ lastSleep = PrintingSleep
    /\ iter >= 2

\* C4: an upload that fails (requests.put raising, or an error response)
\* leaves the script running: nothing is raised and the iteration stands
\* before its sleep.
C4_UploadFailureSwallowed ==
    (lastStep.op = "upload"
       /\ lastStep.outcome \in {"network_error", "error_response"})
      => (pc = "sleep" /\ error = "")

\* C5: the images of this camera's fingerprint in the image folder never
\* number more than the retention cap plus the image of the current
\* iteration.
C5_RetentionCapHolds ==
    entered_loop
      => Cardinality({f \in files : OwnedBy(f, cfg.fingerprint)})
           <= max_images + 1

\* C6: with N matching files and cap M >= 0, deleteImages leaves exactly M
\* matching files, the M most recently created ones, when N > M, and
\* deletes nothing when N <= M; files that do not match stay.
C6_SweepLeavesNewestCap ==
    sw.done =>
      LET before == Range(sw.listing)
          matching == {f \in before : Matches(sw.folder, sw.fingerprint, f)}
          kept == matching \cap files
      IN IF Cardinality(matching) > sw.max_images
           THEN /\ Cardinality(kept) = sw.max_images
                /\ \A k \in kept, d \in matching \ kept : d.ctime <= k.ctime
                /\ before \ matching \subseteq files
           ELSE files = before

\* C7: a sweep for fingerprint A leaves the files named with any other
\* fingerprint B where they are, and does not count them: it deletes
\* nothing unless A's own files exceed the cap.
C7_SweepIgnoresOtherFingerprints ==
    sw.done =>
      LET before == Range(sw.listing)
          own == {f \in before : OwnedBy(f, sw.fingerprint)}
      IN /\ \A B \in SweepFingerprints \ {sw.fingerprint} :
                \A f \in before : OwnedBy(f, B) => f \in files
         /\ (Cardinality(own) <= sw.max_images => sw.removed = {})

\* C8: with selectCamera's sentinel -1 as camera the script gets no further
\* than start-up: no status query is issued and the poll loop is not
\* entered.
C8_NoCameraAborts ==
    camera_id = IndexCamera(NoCamera)
      => (/\ pc \in {"check_fingerprint", "check_rotate", "folder", "camera",
                     "select", "prompt", "exit"}
          /\ nQueries = 0
          /\ ~entered_loop
          /\ uploads = <<>>)

\* C9: with a fingerprint shorter than 16 characters the script never gets
\* past its start-up checks in either configuration path: it ends with a
\* start-up error, and no status query, upload, camera open, probe or
\* verification happens and the image folder is not created.
C9_ShortFingerprintFailsFirst ==
    Len(cfg.fingerprint) < 16
      => (/\ pc \in {"check_fingerprint", "check_rotate", "exit"}
          /\ (pc = "exit" => error \in {"ValueError", "TypeError", "IndexError"})
          /\ (lastStep.op = "check_fingerprint"
                => pc = "exit" /\ error = "ValueError")
          /\ nQueries = 0
          /\ uploads = <<>>
          /\ camTouches = 0
          /\ openHandles = 0
          /\ ~entered_loop)

C9_Witness ==
    /\ Len(cfg.fingerprint) < 16
    /\ ~cfg.json
    /\ lastStep.op = "check_fingerprint"
    /\ pc = "exit"
    /\ error = "ValueError"

\* C10: when control has left captureImage, whatever the camera did, the
\* video handle the call opened is released.
C10_HandleReleasedOnEveryPath ==
    lastStep.op = "capture" => openHandles = 0

\* C11: a call of captureImage ends without an exception whatever the
\* camera does; it returns no path when the source did not open or the
\* frame read failed, and the path of the file it wrote when a frame was
\* read.
C11_NoFrameReturnsNone ==
    lastStep.op = "capture"
      => (/\ error = ""
          /\ (lastStep.outcome = "frame" <=> img_path # NoPath)
          /\ (img_path # NoPath => \E f \in files : f.name = img_path))

\* C12 as stated: no failed status query ends the process, at start-up or
\* in either inner loop, whether the request failed, the body was not JSON
\* or the JSON had no printer.state: the next thing done is another query.
C12_StatusFailureNeverTerminates ==
    (lastStep.op \in {"status0", "query"}
       /\ lastStep.outcome \notin PrinterStates)
      => (pc \in {"status0", "query"} /\ error = "")

\* C12 amended: in both inner loops a query in which getPrinterStatus
\* raises (request failed, body not JSON) is retried and the process goes
\* on; a JSON without printer.state ends the process with KeyError, and
\* any failure of the query before the loop ends the process.
C12_LoopQueryExceptionRetried ==
    /\ (lastStep.op = "query"
          /\ lastStep.outcome \in {"network_error", "bad_json"})
         => (pc = "query" /\ error = "" /\ loop \in {"printing", "other"})
    /\ (lastStep.op = "query" /\ lastStep.outcome = "no_state")
         => (pc = "exit" /\ error = "KeyError")
    /\ (lastStep.op = "status0" /\ lastStep.outcome \notin PrinterStates)
         => (pc = "exit" /\ error \in {"RequestError", "KeyError"}
               /\ ~entered_loop)

C12_Witness ==
    /\ lastStep = Step("query", "bad_json")
    /\ loop = "printing"
    /\ pc = "query"
    /\ error = ""

\* the rotation constant expected for an angle between 0 and 359
ExpectedRotation(angle) ==
    CASE angle = 0 -> None
      [] angle = 90 -> "ROTATE_90_CLOCKWISE"
      [] angle = 180 -> "ROTATE_180"
      [] angle = 270 -> "ROTATE_90_COUNTERCLOCKWISE"

\* C13: a configured rotation that is a multiple of 90, whatever its sign
\* and magnitude, passes the start-up check and selects the rotation of
\* its value modulo 360; any other value ends start-up with an error.
C13_MultiplesOf90Accepted ==
    (lastStep.op = "check_rotate" /\ cfg.has_rotate)
      => IF cfg.rotate % 90 = 0
           THEN pc # "exit" /\ image_rotation = ExpectedRotation(cfg.rotate % 360)
           ELSE pc = "exit" /\ error = "TypeError"

\* C14: while the script runs (every capture so far gave a frame, every
\* status query that counted was answered), after N completed iterations
\* there are exactly N image files, all named with the fingerprint and
\* all different, and exactly N upload calls, the k-th with the file of
\* the k-th capture; inside an iteration the steps come in the order
\* status query, capture, upload, sleep.
C14_OneImageOneUploadPerIteration ==
    (entered_loop /\ pc # "exit") =>
      LET captured == iter + (IF pc \in {"upload", "sleep"} THEN 1 ELSE 0)
          uploaded == iter + (IF pc = "sleep" THEN 1 ELSE 0)
      IN /\ Cardinality(files) = captured
         /\ Cardinality({f.name : f \in files}) = captured
         /\ \A f \in files : OwnedBy(f, cfg.fingerprint)
         /\ Len(uploads) = uploaded
         /\ \A k \in 1..Len(uploads) :
               \E f \in files :
                  /\ f.name = uploads[k]
                  /\ Cardinality({g \in files : g.ctime <= f.ctime}) = k
         /\ (pc = "capture" => lastStep.op = "query")
         /\ (pc = "upload" => lastStep = Step("capture", "frame"))
         /\ (pc = "sleep" => lastStep.op = "upload")
         /\ (pc = "query" => lastStep.op \in {"status0", "sleep", "query"})

C14_Witness ==
    /\ pc = "query"
    /\ lastStep.op = "sleep"
    /\ iter = 2
    /\ nLoopQueries = 2
    /\ prev_status = "PRINTING"
    /\ printer_status = "IDLE"
    /\ Cardinality(files) = 2
    /\ Len(uploads) = 2
    /\ uploads[1] # uploads[2]

\* C15: selectCamera opens the indices 0, 1, ..., 9 in this order, one
\* open per index; it asks the operator only about an index that gave a
\* frame; an answer that is neither yes nor no asks again about the same
\* index; the first index answered yes is returned without a further
\* index being opened; -1 is returned exactly when all ten indices were
\* tried and none was answered yes; no handle is left open on return.
C15_SelectCameraFirstConfirmed ==
    /\ [](~cfg.has_camera =>
            /\ (pc = "select" =>
                  /\ camTouches = sel_i
                  /\ sel_i \in 0..9
                  /\ openHandles = 0
                  /\ camera_id = IndexCamera(-1))
            /\ (pc = "prompt" =>
                  /\ camTouches = sel_i + 1
                  /\ openHandles = 1
                  /\ camera_id = IndexCamera(-1)
                  /\ lastStep \in {Step("probe", "frame"),
                                   Step("prompt", "maybe")})
            /\ (pc = "status0" =>
                  /\ openHandles = 0
                  /\ IF camera_id = IndexCamera(-1)
                       THEN /\ camTouches = 10
                            /\ lastStep \in {Step("probe", "no_frame"),
                                             Step("prompt", "n")}
                       ELSE /\ lastStep = Step("prompt", "y")
                            /\ camera_id = IndexCamera(sel_i)
                            /\ sel_i \in 0..9
                            /\ camTouches = sel_i + 1))
    /\ [][(pc \in {"select", "prompt"}) =>
            /\ sel_i' \in {sel_i, sel_i + 1}
            /\ (camTouches' # camTouches =>
                  pc = "select" /\ camTouches' = camTouches + 1)
            /\ (pc = "prompt" /\ lastStep' = Step("prompt", "maybe")
                  => pc' = "prompt" /\ sel_i' = sel_i)
            /\ (pc = "prompt" /\ lastStep' = Step("prompt", "n")
                  => pc' # "prompt" /\ camera_id' = IndexCamera(-1))]_vars

C15_Witness ==
    /\ ~cfg.has_camera
    /\ pc = "status0"
    /\ lastStep = Step("prompt", "y")
    /\ camera_id = IndexCamera(2)
    /\ camTouches = 3
    /\ openHandles = 0

\* C16: once the poll loop is entered the image folder is a directory; in
\* both configuration paths a path that is a file stops the script at the
\* folder check, and an absent path is no longer absent once that check
\* has passed.
C16_FolderIsDirectoryInLoop ==
    /\ (entered_loop => fsKind = "dir")
    /\ (fsKind # "dir"
          => pc \in {"check_fingerprint", "check_rotate", "folder", "exit"})
    /\ (lastStep.op = "folder"
          => \/ pc = "exit" /\ error = "FileExistsError" /\ fsKind = "file"
             \/ pc = "camera" /\ error = "" /\ fsKind = "dir")
    /\ (error = "FileExistsError" => lastStep.op = "folder")

C16_Witness ==
    /\ entered_loop
    /\ fsKind = "dir"
    /\ cfg.json
    /\ iter >= 1

\* C18: a status query of the poll loop that fails leaves printer_status
\* as it was and creates, uploads and deletes no image file; when the
\* failure is an exception of getPrinterStatus the script is also still in
\* the same inner loop.
C18_FailedQueryChangesNothing ==
    [][(pc = "query" /\ lastStep'.op = "query"
          /\ lastStep'.outcome \notin PrinterStates)
        => (/\ printer_status' = printer_status
            /\ prev_status' = prev_status
            /\ files' = files
            /\ uploads' = uploads
            /\ fsKind' = fsKind
            /\ (lastStep'.outcome \in {"network_error", "bad_json"}
                  => loop' = loop /\ pc' = pc))]_vars

C18_Witness ==
    /\ lastStep = Step("query", "bad_json")
    /\ pc = "query"
    /\ loop = "printing"
    /\ printer_status = "PRINTING"
    /\ Cardinality(files) >= 1
    /\ Len(uploads) >= 1

\* C19: the sleep of an iteration is that of the inner loop the iteration
\* runs in, which was chosen by the state known before the iteration's
\* query: while an iteration is under way the loop is the one for the
\* earlier state, and only when the next query is due is it the one for
\* the state last reported; so the sleep after a change of state still
\* has the old interval and the one after it the new interval.
C19_SleepChosenBeforeQuery ==
    (entered_loop /\ pc # "exit") =>
      /\ (pc \in {"capture", "upload", "sleep"}
            => (loop = "printing" <=> prev_status = "PRINTING"))
      /\ (pc = "query"
            => (loop = "printing" <=> printer_status = "PRINTING"))
      /\ (lastStep.op = "sleep"
            => /\ (lastSleep = 60 <=> prev_status = "PRINTING")
               /\ (lastSleep = 120 <=> prev_status # "PRINTING"))

C19_Witness ==
    /\ lastStep.op = "sleep"
    /\ prev_status = "IDLE"
    /\ printer_status = "PRINTING"
    /\ lastSleep = 120
    /\ loop = "printing"
    /\ iter >= 1

====
